---- MODULE Spec2Model ----
(***************************************************************************)
(* Model of the semantic-domains package: the RWC document parser          *)
(* (semantic_domains/rwc_parser.py) with its word tokenizer and its JSON   *)
(* conversion, the dataclasses (semantic_domains/definitions.py) and the   *)
(* domain hierarchy (semantic_domains/hierarchy.py).                       *)
(*                                                                         *)
(* Python strings are sequences of one-character strings.  A Python        *)
(* Optional is a sequence of length at most one (None is <<>>).  A raised  *)
(* exception is named by its Python class.                                 *)
(***************************************************************************)
EXTENDS Integers, Sequences, FiniteSets, TLC

VARIABLES
    document,    \* RWCParser.document.paragraphs: sequence of [style, text]
    cursor,      \* RWCParser.cursor (0-based)
    pc,          \* the statement of the parser about to run
    domains,     \* local `domains` of RWCParser.parse
    dom,         \* locals of parse_domain: domain_code, domain_title, domain_description
    questions,   \* local `questions` of parse_domain_questions
    qloc,        \* locals of parse_question: question_num, question_text
    error,       \* the exception that left the running call, "none" if none
    output,      \* the file at output_json_path: None while it does not exist
    subdomains,  \* DomainNode.subdomains of every node: keys in dict order
    content,     \* DomainNode.content of every node
    parent,      \* DomainNode.parent of every node
    inserted,    \* the domains handed to root.insert so far that were stored
    op           \* the last call made on the hierarchy and its outcome

parserVars == <<document, cursor, pc, domains, dom, questions, qloc, error,
                output>>
treeVars == <<subdomains, content, parent, inserted, op>>
vars == <<document, cursor, pc, domains, dom, questions, qloc, error, output,
          subdomains, content, parent, inserted, op>>

----------------------------------------------------------------------------
(* Bounds of the model *)

MaxLen == 5        \* longest text after the bullet of a tokenized words line
MaxLines == 6      \* longest document
MaxInserts == 4    \* most domains stored in one hierarchy
MaxTraverseDepth == 2   \* largest max_depth handed to traverse
MaxQuestions == 2  \* most questions of a domain that is turned into a dict
MaxQuestionLen == 5   \* longest text of a question line handed to parse_question_text
MaxStyleLines == 4    \* longest document of the parses that meet a words line without bullet
MaxSegments == 12     \* most segments in the code of a domain of a deep hierarchy
MaxDeepInserts == 3   \* most domains stored in a deep hierarchy

----------------------------------------------------------------------------
(* Exceptions *)

AssertionError == "AssertionError"
StopIteration == "StopIteration"
IndexError == "IndexError"
ValueError == "ValueError"
KeyError == "KeyError"
AttributeError == "AttributeError"

None == <<>>
Some(x) == <<x>>

----------------------------------------------------------------------------
(* Python str methods *)

Whitespace == {" "}
Digits == {"0", "1", "2", "3", "4", "5", "6", "7", "8", "9"}

RECURSIVE Split(_, _)
Split(s, sep) ==
    IF s = <<>> THEN << <<>> >>
    ELSE LET rest == Split(Tail(s), sep) IN
         IF Head(s) = sep THEN << <<>> >> \o rest
         ELSE << <<Head(s)>> \o Head(rest) >> \o Tail(rest)

RECURSIVE Join(_, _)
Join(parts, sep) ==
    IF parts = <<>> THEN <<>>
    ELSE IF Len(parts) = 1 THEN Head(parts)
    ELSE Head(parts) \o <<sep>> \o Join(Tail(parts), sep)

RECURSIVE LStrip(_, _)
LStrip(s, chars) ==
    IF s # <<>> /\ Head(s) \in chars THEN LStrip(Tail(s), chars) ELSE s

RECURSIVE RStrip(_, _)
RStrip(s, chars) ==
    IF s # <<>> /\ s[Len(s)] \in chars
    THEN RStrip(SubSeq(s, 1, Len(s) - 1), chars) ELSE s

Strip(s) == RStrip(LStrip(s, Whitespace), Whitespace)

\* mutant: the prefix may stand anywhere in the string (`prefix in s`)
StartsWith_anywhere(s, prefix) ==
    \E i \in 1..(Len(s) - Len(prefix) + 1) : SubSeq(s, i, i + Len(prefix) - 1) = prefix

StartsWith(s, prefix) ==
    Len(s) >= Len(prefix) /\ SubSeq(s, 1, Len(prefix)) = prefix

EndsWith(s, suffix) ==
    Len(s) >= Len(suffix) /\ SubSeq(s, Len(s) - Len(suffix) + 1, Len(s)) = suffix

RECURSIVE Replace(_, _, _)
Replace(s, old, new) ==
    IF s = <<>> THEN <<>>
    ELSE IF StartsWith(s, old)
         THEN new \o Replace(SubSeq(s, Len(old) + 1, Len(s)), old, new)
         ELSE <<Head(s)>> \o Replace(Tail(s), old, new)

DigitValue(c) ==
    CASE c = "0" -> 0 [] c = "1" -> 1 [] c = "2" -> 2 [] c = "3" -> 3
      [] c = "4" -> 4 [] c = "5" -> 5 [] c = "6" -> 6 [] c = "7" -> 7
      [] c = "8" -> 8 [] c = "9" -> 9

RECURSIVE DecimalValue(_)
DecimalValue(s) ==
    IF s = <<>> THEN 0
    ELSE 10 * DecimalValue(SubSeq(s, 1, Len(s) - 1)) + DigitValue(s[Len(s)])

\* int(s): surrounding whitespace is ignored; anything but digits is a ValueError
ParseInt(s) ==
    LET t == Strip(s) IN
    IF t # <<>> /\ \A i \in 1..Len(t) : t[i] \in Digits
    THEN [err |-> "none", value |-> DecimalValue(t)]
    ELSE [err |-> ValueError, value |-> 0]

----------------------------------------------------------------------------
(* RWCParser: styles and the current line *)

domain_header_style_name == <<"Heading 2">>
domain_description_style_name == <<"descr">>
question_style_name == <<"quest1">>
word_style_name == <<"words">>

\* the character U+2022 that starts a words line
Bullet == "U+2022"

num_lines == Len(document)

\* the while loop of get_current_line, entered with cur < num_lines
RECURSIVE SkipEmptyLines(_)
SkipEmptyLines(cur) ==
    IF Strip(document[cur + 1].text) = <<>>
    THEN IF cur + 1 < num_lines
         THEN SkipEmptyLines(cur + 1)
         ELSE [err |-> IndexError, cursor |-> cur + 1, line |-> None]
    ELSE [err |-> "none", cursor |-> cur, line |-> Some(document[cur + 1])]

get_current_line ==
    IF cursor < num_lines
    THEN SkipEmptyLines(cursor)
    ELSE [err |-> StopIteration, cursor |-> cursor, line |-> None]

\* mutant: the style is not looked at
verify_style_unchecked(line, style_name) == TRUE

verify_style(line, style_name) == line.style = style_name

----------------------------------------------------------------------------
(* parse_set_of_words: the bracket-protecting tokenizer *)

\* insertion-ordered dict {" ": "_", ",": "#"}
char_protection_replacement == << <<" ", "_">>, <<",", "#">> >>

MapKeys(replacement_map) == {replacement_map[i][1] : i \in DOMAIN replacement_map}
MapGet(replacement_map, k) ==
    LET i == CHOOSE j \in DOMAIN replacement_map : replacement_map[j][1] = k
    IN replacement_map[i][2]

opening == {"("}
correspondence == << <<")", "(">> >>

RECURSIVE protect_loop(_, _, _, _, _)
protect_loop(string, replacement_map, char_ind, stack, modified_string) ==
    IF char_ind > Len(string)
    THEN [err |-> "none", value |-> modified_string]
    ELSE LET char == string[char_ind] IN
         IF char \in opening
         THEN protect_loop(string, replacement_map, char_ind + 1,
                           Append(stack, char), modified_string)
         ELSE IF char \in MapKeys(correspondence)
         THEN IF stack = <<>>
              THEN [err |-> IndexError, value |-> <<>>]     \* stack.pop(-1) on []
              ELSE IF stack[Len(stack)] # MapGet(correspondence, char)
              THEN [err |-> AssertionError, value |-> <<>>]
              ELSE protect_loop(string, replacement_map, char_ind + 1,
                                SubSeq(stack, 1, Len(stack) - 1), modified_string)
         ELSE IF Len(stack) > 0 /\ char \in MapKeys(replacement_map)
         THEN protect_loop(string, replacement_map, char_ind + 1, stack,
                  [modified_string EXCEPT ![char_ind] = MapGet(replacement_map, char)])
         ELSE protect_loop(string, replacement_map, char_ind + 1, stack,
                           modified_string)

\* mutant: only the first entry of the map (the space) is protected
protect_brackets_spaces_only(string, replacement_map) ==
    protect_loop(string, SubSeq(replacement_map, 1, 1), 1, <<>>, string)

protect_brackets(string, replacement_map) ==
    protect_loop(string, replacement_map, 1, <<>>, string)

RECURSIVE recover_loop(_, _, _)
recover_loop(word, replacement_map, i) ==
    IF i > Len(replacement_map) THEN word
    ELSE recover_loop(Replace(word, <<replacement_map[i][2]>>, <<replacement_map[i][1]>>),
                      replacement_map, i + 1)

recover_replaced_characters(word, replacement_map) ==
    recover_loop(word, replacement_map, 1)

RECURSIVE FilterNonEmpty(_)
FilterNonEmpty(words) ==
    IF words = <<>> THEN <<>>
    ELSE IF Head(words) # <<>>
         THEN <<Head(words)>> \o FilterNonEmpty(Tail(words))
         ELSE FilterNonEmpty(Tail(words))

\* mutant: the pattern lacks the opening parenthesis, "n)" is expanded
ExpandNoun_any_opening(word) == Replace(word, <<"n", ")">>, <<"n", "o", "u", "n", ")">>)

ExpandVerb(word) == Replace(word, <<"(", "v", ")">>, <<"(", "v", "e", "r", "b", ")">>)
ExpandNoun(word) == Replace(word, <<"(", "n", ")">>, <<"(", "n", "o", "u", "n", ")">>)

tokenize_words(words_text, replacement_map) ==
    LET protected == protect_brackets(words_text, replacement_map) IN
    IF protected.err # "none" THEN [err |-> protected.err, value |-> <<>>]
    ELSE LET split == Split(protected.value, ",")
             stripped == [i \in DOMAIN split |-> Strip(split[i])]
             nonempty == FilterNonEmpty(stripped)
             verbs == [i \in DOMAIN nonempty |-> ExpandVerb(nonempty[i])]
             nouns == [i \in DOMAIN verbs |-> ExpandNoun(verbs[i])]
         IN [err |-> "none",
             value |-> [i \in DOMAIN nouns |->
                          recover_replaced_characters(nouns[i], replacement_map)]]

----------------------------------------------------------------------------
(* RWCParser: the parse steps.  Every action is one call (or one loop test) *)
(* of rwc_parser.py; an exception leaves every enclosing call, up to the    *)
(* caller of parse, except where the code catches it.                       *)

Question(num, text, words) == [num |-> num, text |-> text, words |-> words]
Domain(code, title, description, qs) ==
    [code |-> code, title |-> title, description |-> description, questions |-> qs]

NoDomain == [code |-> <<>>, title |-> <<>>, description |-> <<>>]
NoQuestion == [num |-> 0, text |-> <<>>]

\* mutant: a failure does not leave parse, the document is parsed again
Raise_restarts(exc, cur) ==
    /\ pc' = "start"
    /\ error' = exc
    /\ cursor' = cur
    /\ UNCHANGED <<output, document, domains, dom, questions, qloc>>

\* mutant: the output file is opened before the parse, so a failed parse
\* leaves an empty file
Raise_output_opened(exc, cur) ==
    /\ pc' = "raised"
    /\ error' = exc
    /\ cursor' = cur
    /\ output' = Some([written |-> None])
    /\ UNCHANGED <<document, domains, dom, questions, qloc>>

\* an exception propagates out of parse with the cursor where it was raised
Raise(exc, cur) ==
    /\ pc' = "raised"
    /\ error' = exc
    /\ cursor' = cur
    /\ UNCHANGED <<output, document, domains, dom, questions, qloc>>

\* parse, lines 220-222
ParseStart ==
    /\ UNCHANGED treeVars
    /\ pc = "start"
    /\ domains' = <<>>
    /\ cursor' = 0
    /\ pc' = "parse"
    /\ UNCHANGED <<output, document, dom, questions, qloc, error>>

\* parse, the test of the while loop (line 223) and the return (line 227)
ParseLoop ==
    /\ UNCHANGED treeVars
    /\ pc = "parse"
    /\ pc' = IF cursor < num_lines THEN "parse_domain_title" ELSE "returned"
    /\ UNCHANGED <<output, document, cursor, domains, dom, questions, qloc, error>>

ParseDomainTitle ==
    /\ UNCHANGED treeVars
    /\ pc = "parse_domain_title"
    /\ LET got == get_current_line IN
       IF got.err # "none" THEN Raise(got.err, got.cursor)
       ELSE LET line == got.line[1] IN
            IF ~verify_style(line, domain_header_style_name)
            THEN Raise(AssertionError, got.cursor)
            ELSE LET parts == Split(line.text, " ") IN
                 /\ dom' = [code |-> Head(parts),
                            title |-> Join(Tail(parts), " "),
                            description |-> <<>>]
                 /\ cursor' = got.cursor + 1
                 /\ pc' = "parse_domain_description"
                 /\ UNCHANGED <<output, document, domains, questions, qloc, error>>

ParseDomainDescription ==
    /\ UNCHANGED treeVars
    /\ pc = "parse_domain_description"
    /\ LET got == get_current_line IN
       IF got.err # "none" THEN Raise(got.err, got.cursor)
       ELSE LET line == got.line[1] IN
            IF ~verify_style(line, domain_description_style_name)
            THEN Raise(AssertionError, got.cursor)
            ELSE /\ dom' = [dom EXCEPT !.description = line.text]
                 /\ cursor' = got.cursor + 1
                 /\ pc' = "parse_domain_questions"
                 /\ UNCHANGED <<output, document, domains, questions, qloc, error>>

\* mutant: the loop test consumes the line it looks at
QuestionLoopTest_consumes(line, cur, qs) ==
    /\ cursor' = cur + 1
    /\ IF line.style \in {question_style_name, word_style_name}
       THEN /\ pc' = "parse_question_text"
            /\ questions' = qs
            /\ UNCHANGED domains
       ELSE /\ pc' = "parse"
            /\ questions' = qs
            /\ domains' = Append(domains,
                                 Domain(dom.code, dom.title, dom.description, qs))
    /\ UNCHANGED <<output, document, dom, qloc, error>>

\* the test of the while loop of parse_domain_questions (line 190) on `line`
\* with the questions `qs` collected so far; when the loop ends,
\* parse_domain returns the Domain and parse appends it (lines 197, 211, 225)
QuestionLoopTest(line, cur, qs) ==
    /\ cursor' = cur
    /\ IF line.style \in {question_style_name, word_style_name}
       THEN /\ pc' = "parse_question_text"
            /\ questions' = qs
            /\ UNCHANGED domains
       ELSE /\ pc' = "parse"
            /\ questions' = qs
            /\ domains' = Append(domains,
                                 Domain(dom.code, dom.title, dom.description, qs))
    /\ UNCHANGED <<output, document, dom, qloc, error>>

\* parse_domain_questions, lines 187-190
ParseDomainQuestions ==
    /\ UNCHANGED treeVars
    /\ pc = "parse_domain_questions"
    /\ LET got == get_current_line IN
       IF got.err # "none" THEN Raise(got.err, got.cursor)
       ELSE QuestionLoopTest(got.line[1], got.cursor, <<>>)

ParseQuestionText ==
    /\ UNCHANGED treeVars
    /\ pc = "parse_question_text"
    /\ LET got == get_current_line IN
       IF got.err # "none" THEN Raise(got.err, got.cursor)
       ELSE LET line == got.line[1] IN
            IF ~verify_style(line, question_style_name)
            THEN Raise(AssertionError, got.cursor)
            ELSE LET parts == Split(line.text, " ")
                     question_num == Head(parts)
                 IN IF ~(StartsWith(question_num, <<"(">>) /\ EndsWith(question_num, <<")">>))
                    THEN Raise(AssertionError, got.cursor)
                    ELSE LET num == ParseInt(RStrip(LStrip(question_num, {"("}), {")"}))
                             question_text == Strip(Join(Tail(parts), " "))
                         IN \* int() runs in the return statement, after advance()
                            IF num.err # "none" THEN Raise(num.err, got.cursor + 1)
                            ELSE /\ qloc' = [num |-> num.value, text |-> question_text]
                                 /\ cursor' = got.cursor + 1
                                 /\ pc' = "parse_set_of_words"
                                 /\ UNCHANGED <<output, document, domains, dom, questions, error>>

ParseSetOfWords ==
    /\ UNCHANGED treeVars
    /\ pc = "parse_set_of_words"
    /\ LET got == get_current_line IN
       IF got.err # "none" THEN Raise(got.err, got.cursor)
       ELSE LET line == got.line[1] IN
            IF ~verify_style(line, word_style_name)
            THEN Raise(AssertionError, got.cursor)
            ELSE IF ~StartsWith(line.text, <<Bullet>>)
            THEN Raise(AssertionError, got.cursor)
            ELSE LET words_text == Strip(LStrip(line.text, {Bullet}))
                     final_words == tokenize_words(words_text, char_protection_replacement)
                 IN IF final_words.err # "none"
                    THEN Raise(final_words.err, got.cursor)
                    ELSE /\ questions' = Append(questions,
                                Question(qloc.num, qloc.text, final_words.value))
                         /\ cursor' = got.cursor + 1
                         /\ pc' = "next_question"
                         /\ UNCHANGED <<output, document, domains, dom, qloc, error>>

\* parse_domain_questions, lines 192-195 and the loop test after them
NextQuestion ==
    /\ UNCHANGED treeVars
    /\ pc = "next_question"
    /\ LET got == get_current_line IN
       IF got.err = StopIteration
       THEN \* caught: break, return questions; the Domain is appended
            /\ domains' = Append(domains,
                                 Domain(dom.code, dom.title, dom.description, questions))
            /\ cursor' = got.cursor
            /\ pc' = "parse"
            /\ UNCHANGED <<output, document, dom, questions, qloc, error>>
       ELSE IF got.err # "none" THEN Raise(got.err, got.cursor)
       ELSE QuestionLoopTest(got.line[1], got.cursor, questions)

----------------------------------------------------------------------------
(* Documents *)

HeaderLine == [style |-> domain_header_style_name, text |-> <<"1", ".", "2", " ", "v", " ", "n">>]
DescriptionLine == [style |-> domain_description_style_name, text |-> <<"n", " ", "v">>]
QuestionLine == [style |-> question_style_name, text |-> <<"(", "1", "2", ")", " ", "v", " ", "n">>]
WordsLine == [style |-> word_style_name, text |-> <<Bullet, " ", "v", ",", " ", "n", " ", "(", "v", ",", " ", "n", ")">>]
BlankLine == [style |-> <<"Normal">>, text |-> <<" ">>]
OtherLine == [style |-> <<"Normal">>, text |-> <<"v">>]

Lines == {HeaderLine, DescriptionLine, QuestionLine, WordsLine, BlankLine, OtherLine}

SeqsUpTo(S, n) == UNION {[1..k -> S] : k \in 0..n}

Documents == SeqsUpTo(Lines, MaxLines)

\* the characters of the tokenized texts: letters, the separators, the
\* brackets and one of the two placeholder characters
TokenAlphabet == {"v", "n", " ", ",", "(", ")", "#"}

WordsTexts == SeqsUpTo(TokenAlphabet, MaxLen)

EmptyTree ==
    /\ subdomains = (<<>> :> <<>>)
    /\ content = (<<>> :> None)
    /\ parent = (<<>> :> None)
    /\ inserted = <<>>
    /\ op = [kind |-> "new"]

\* a parser just constructed on a document (RWCParser.__init__)
Init ==
    /\ document \in Documents
    /\ cursor = 0
    /\ pc = "start"
    /\ domains = <<>>
    /\ dom = NoDomain
    /\ questions = <<>>
    /\ qloc = NoQuestion
    /\ error = "none"
    /\ output = None
    /\ EmptyTree

Next ==
    \/ ParseStart
    \/ ParseLoop
    \/ ParseDomainTitle
    \/ ParseDomainDescription
    \/ ParseDomainQuestions
    \/ ParseQuestionText
    \/ ParseSetOfWords
    \/ NextQuestion

Spec == Init /\ [][Next]_vars

\* parse_question called on a parser whose document is a question line
\* followed by one words line
TokInit ==
    /\ \E s \in WordsTexts :
          document = <<QuestionLine, [style |-> word_style_name, text |-> <<Bullet>> \o s]>>
    /\ cursor = 0
    /\ pc = "parse_question_text"
    /\ domains = <<>>
    /\ dom = NoDomain
    /\ questions = <<>>
    /\ qloc = NoQuestion
    /\ error = "none"
    /\ output = None
    /\ EmptyTree

TokNext ==
    \/ ParseQuestionText
    \/ ParseSetOfWords

TokSpec == TokInit /\ [][TokNext]_vars

\* the texts of the question lines parse_question_text is tried on
QuestionAlphabet == {"(", ")", "1", "2", " ", "v"}

QuestionTexts == SeqsUpTo(QuestionAlphabet, MaxQuestionLen)

\* parse_question_text called on a parser whose cursor is 0 and whose
\* document ends with a question line, after a blank line or after none
QuestionTextInit ==
    /\ \E s \in QuestionTexts, blanks \in {<<>>, <<BlankLine>>} :
          document = blanks \o <<[style |-> question_style_name, text |-> s]>>
    /\ cursor = 0
    /\ pc = "parse_question_text"
    /\ domains = <<>>
    /\ dom = NoDomain
    /\ questions = <<>>
    /\ qloc = NoQuestion
    /\ error = "none"
    /\ output = None
    /\ EmptyTree

QuestionTextNext ==
    \/ ParseQuestionText

QuestionTextSpec == QuestionTextInit /\ [][QuestionTextNext]_vars

\* a line in the words style whose text lacks the bullet
NoBulletLine == [style |-> word_style_name, text |-> <<"v", ",", " ", "n">>]

StyleDocuments == SeqsUpTo(Lines \cup {NoBulletLine}, MaxStyleLines)

\* a parser just constructed on a short document that may hold a words line
\* without bullet
StyleInit ==
    /\ document \in StyleDocuments
    /\ cursor = 0
    /\ pc = "start"
    /\ domains = <<>>
    /\ dom = NoDomain
    /\ questions = <<>>
    /\ qloc = NoQuestion
    /\ error = "none"
    /\ output = None
    /\ EmptyTree

StyleSpec == StyleInit /\ [][Next]_vars

\* question lines on which parse_question_text fails and a words line on
\* which protect_brackets fails
NoParenthesisLine == [style |-> question_style_name, text |-> <<"1", ")", " ", "v">>]
NoNumberLine == [style |-> question_style_name, text |-> <<"(", "v", ")", " ", "n">>]
StrayCloseLine == [style |-> word_style_name, text |-> <<Bullet, " ", "n", ")">>]

CursorDocuments ==
    SeqsUpTo(Lines \cup {NoBulletLine, NoParenthesisLine, NoNumberLine, StrayCloseLine},
             MaxStyleLines)

\* a parser just constructed on a short document that may hold lines failing
\* each of the checks of the parse steps
CursorInit ==
    /\ document \in CursorDocuments
    /\ cursor = 0
    /\ pc = "start"
    /\ domains = <<>>
    /\ dom = NoDomain
    /\ questions = <<>>
    /\ qloc = NoQuestion
    /\ error = "none"
    /\ output = None
    /\ EmptyTree

CursorSpec == CursorInit /\ [][Next]_vars

\* One step of the running call.  Every action of parse is a total IF/ELSE
\* chain guarded by its value of pc only and moves pc to another value, so a
\* call that has not returned or raised has a step, and that step changes pc.
Running ==
    /\ pc \notin {"returned", "raised"}
    /\ pc' \in {"start", "parse", "parse_domain_title", "parse_domain_description",
                "parse_domain_questions", "parse_question_text",
                "parse_set_of_words", "next_question", "returned", "raised"}
    /\ pc' # pc

\* parse run to its end: the interpreter always takes the next step of a
\* call that has one
FairSpec == StyleInit /\ [][Next]_vars /\ WF_pc(Running)

----------------------------------------------------------------------------
(* DomainNode (hierarchy.py).  A node is named by the path of keys that     *)
(* leads to it from the root; the root is <<>>.                             *)

Range(seq) == {seq[i] : i \in DOMAIN seq}

Tree == [subdomains |-> subdomains, content |-> content, parent |-> parent]

\* DomainNode.__init__ for the child of `self` under `key`, stored in
\* self.subdomains[key] (a dict keeps its keys in insertion order)
new_child(t, self, key) ==
    LET node == Append(self, key) IN
    [subdomains |-> [t.subdomains EXCEPT ![self] = Append(@, key)] @@ (node :> <<>>),
     content |-> t.content @@ (node :> None),
     parent |-> t.parent @@ (node :> Some(self))]

domain_code(code) ==
    LET parts == Split(code, ".")
        ints == [i \in DOMAIN parts |-> ParseInt(parts[i])]
    IN IF \E i \in DOMAIN ints : ints[i].err # "none"
       THEN [err |-> ValueError, value |-> <<>>]
       ELSE [err |-> "none", value |-> [i \in DOMAIN ints |-> ints[i].value]]

\* mutant: the assertion is missing, a second domain replaces the first
RECURSIVE insert_overwrite(_, _, _, _)
insert_overwrite(t, self, domain, code_parts) ==
    IF Len(code_parts) = 0
    THEN [err |-> "none", tree |-> [t EXCEPT !.content[self] = Some(domain)]]
    ELSE LET current_code == Head(code_parts)
             t1 == IF current_code \notin Range(t.subdomains[self])
                   THEN new_child(t, self, current_code)
                   ELSE t
         IN insert_overwrite(t1, Append(self, current_code), domain, Tail(code_parts))

\* mutant: every node created on the way is given the domain as content
RECURSIVE insert_marks_path(_, _, _, _)
insert_marks_path(t, self, domain, code_parts) ==
    IF Len(code_parts) = 0
    THEN IF t.content[self] # None /\ t.content[self] # Some(domain)
         THEN [err |-> AssertionError, tree |-> t]
         ELSE [err |-> "none", tree |-> [t EXCEPT !.content[self] = Some(domain)]]
    ELSE LET current_code == Head(code_parts)
             node == Append(self, current_code)
             t1 == IF current_code \notin Range(t.subdomains[self])
                   THEN [new_child(t, self, current_code) EXCEPT !.content[node] = Some(domain)]
                   ELSE t
         IN insert_marks_path(t1, node, domain, Tail(code_parts))

\* insert(domain, code_parts) on node `self` of tree t, code_parts given
RECURSIVE insert(_, _, _, _)
insert(t, self, domain, code_parts) ==
    IF Len(code_parts) = 0
    THEN IF t.content[self] # None
         THEN [err |-> AssertionError, tree |-> t]
         ELSE [err |-> "none", tree |-> [t EXCEPT !.content[self] = Some(domain)]]
    ELSE LET current_code == Head(code_parts)
             remaining == Tail(code_parts)
             t1 == IF current_code \notin Range(t.subdomains[self])
                   THEN new_child(t, self, current_code)
                   ELSE t
         IN insert(t1, Append(self, current_code), domain, remaining)

\* root.insert(domain): code_parts is None, so the code is split first
root_insert(t, domain) ==
    LET code_parts == domain_code(domain.code) IN
    IF code_parts.err # "none" THEN [err |-> code_parts.err, tree |-> t]
    ELSE insert(t, <<>>, domain, code_parts.value)

\* mutant: no copy is made, the caller's list is the one popped
copy_alias(key) == [items |-> key, fresh |-> FALSE]

\* copy(key): a new list with the same items
copy(key) == [items |-> key, fresh |-> TRUE]

\* __getitem__ on node `self` with the list `key`: the outcome, and in `arg`
\* the items left in the caller's list object when the call ends
RECURSIVE getitem_list(_, _)
getitem_list(self, key) ==
    LET local == copy(key)
        Arg(items) == IF local.fresh THEN key ELSE items
    IN IF Len(local.items) = 0
       THEN IF content[self] = None
            THEN [err |-> AssertionError, value |-> None, arg |-> Arg(local.items)]
            ELSE [err |-> "none", value |-> content[self], arg |-> Arg(local.items)]
       ELSE LET descend == Head(local.items)          \* key.pop(0)
                popped == Tail(local.items)
            IN IF descend \notin Range(subdomains[self])
               THEN [err |-> KeyError, value |-> None, arg |-> Arg(popped)]
               ELSE LET got == getitem_list(Append(self, descend), popped)
                    IN [err |-> got.err, value |-> got.value, arg |-> Arg(got.arg)]

\* __getitem__ with a str key: the key is split and a new list is made
getitem_str(self, key) ==
    LET code_parts == domain_code(key) IN
    IF code_parts.err # "none"
    THEN [err |-> code_parts.err, value |-> None, arg |-> key]
    ELSE LET local == code_parts.value IN
         IF Len(local) = 0
         THEN IF content[self] = None
              THEN [err |-> AssertionError, value |-> None, arg |-> key]
              ELSE [err |-> "none", value |-> content[self], arg |-> key]
         ELSE IF Head(local) \notin Range(subdomains[self])
              THEN [err |-> KeyError, value |-> None, arg |-> key]
              ELSE LET got == getitem_list(Append(self, Head(local)), Tail(local))
                   IN [err |-> got.err, value |-> got.value, arg |-> key]

getitem(self, key) ==
    IF key.type = "str" THEN getitem_str(self, key.str)
    ELSE getitem_list(self, key.list)

\* traverse(max_depth) on node `self`: the nodes the generator yields, in order
RECURSIVE traverse(_, _)
RECURSIVE traverse_values(_, _, _)

\* mutant: the depth test is max_depth >= 0, one level too deep
RECURSIVE traverse_values_too_deep(_, _, _)
traverse_values_too_deep(self, i, max_depth) ==
    IF i > Len(subdomains[self]) THEN <<>>
    ELSE LET node == Append(self, subdomains[self][i]) IN
         <<node>>
         \o (IF max_depth >= 0
             THEN traverse_values_too_deep(node, 1, max_depth - 1) ELSE <<>>)
         \o traverse_values_too_deep(self, i + 1, max_depth)

\* mutant: the children are visited in the numeric order of their keys
RECURSIVE traverse_values_sorted(_, _, _)
traverse_values_sorted(self, i, max_depth) ==
    LET keys == SortSeq(subdomains[self], LAMBDA a, b : a < b) IN
    IF i > Len(keys) THEN <<>>
    ELSE LET node == Append(self, keys[i]) IN
         <<node>>
         \o (IF max_depth > 0
             THEN traverse_values_sorted(node, 1, max_depth - 1) ELSE <<>>)
         \o traverse_values_sorted(self, i + 1, max_depth)

traverse_values(self, i, max_depth) ==
    IF i > Len(subdomains[self]) THEN <<>>
    ELSE LET node == Append(self, subdomains[self][i]) IN
         <<node>>
         \o (IF max_depth > 0 THEN traverse(node, max_depth - 1) ELSE <<>>)
         \o traverse_values(self, i + 1, max_depth)

traverse(self, max_depth) == traverse_values(self, 1, max_depth)

\* __iter__, lines 46-48: the content of the nodes of traverse(max_depth=10)
\* that have one (the return statement after the loop yields nothing)
iter(self) ==
    LET nodes == SelectSeq(traverse(self, 10), LAMBDA node : content[node] # None)
    IN [i \in 1..Len(nodes) |-> content[nodes[i]][1]]

\* __repr__, lines 37-41: the titles collected while walking the parent
\* references, as long as the node walked has content
RECURSIVE repr_parts(_, _)
repr_parts(parent_ref, parts) ==
    IF parent_ref # None /\ content[parent_ref[1]] # None
    THEN repr_parts(parent[parent_ref[1]],
                    <<content[parent_ref[1]][1].title>> \o parts)
    ELSE parts

\* "  /  ".join(parts)
RECURSIVE join_path(_)
join_path(parts) ==
    IF parts = <<>> THEN <<>>
    ELSE IF Len(parts) = 1 THEN Head(parts)
    ELSE Head(parts) \o <<" ", " ", "/", " ", " ">> \o join_path(Tail(parts))

\* f"{self.__class__.__name__}({...})" around the text of the path
repr_format(path) ==
    <<"D", "o", "m", "a", "i", "n", "N", "o", "d", "e", "(">> \o path \o <<")">>

\* repr(node)
repr(self) ==
    LET path == join_path(repr_parts(Some(self), <<>>)) IN
    repr_format(IF content[self] # None THEN path ELSE <<"N", "o", "n", "e">>)

\* the generator object made by node.traverse(max_depth): its suspended
\* frames, innermost last.  A frame is at "for" before it has taken a child
\* from subdomains.values(), at "yield" when it is suspended at line 59 with
\* child number i, and at "yield from" while the child's generator runs
traverse_frame(self, max_depth) ==
    [self |-> self, i |-> 0, max_depth |-> max_depth, pos |-> "for"]

traverse_generator(self, max_depth) == <<traverse_frame(self, max_depth)>>

\* next(generator): runs the frames up to the next yield; value is None when
\* the generator is exhausted (StopIteration)
RECURSIVE generator_next(_)
generator_next(frames) ==
    IF frames = <<>> THEN [frames |-> <<>>, value |-> None]
    ELSE LET top == frames[Len(frames)]
             rest == SubSeq(frames, 1, Len(frames) - 1)
         IN IF top.pos = "yield" /\ top.max_depth > 0
            THEN generator_next(
                    rest \o <<[top EXCEPT !.pos = "yield from"]>>
                    \o traverse_generator(
                          Append(top.self, subdomains[top.self][top.i]),
                          top.max_depth - 1))
            ELSE IF top.i < Len(subdomains[top.self])
            THEN [frames |-> Append(rest, [top EXCEPT !.i = top.i + 1,
                                                      !.pos = "yield"]),
                  value |-> Some(Append(top.self,
                                        subdomains[top.self][top.i + 1]))]
            ELSE generator_next(rest)

\* mutant: the iteration state is shared, a next() on one generator moves
\* every generator of the node
advance_shared(generators, k) ==
    [j \in DOMAIN generators |-> generator_next(generators[j]).frames]

\* the generator objects after next() on generator k: each has frames of
\* its own
advance(generators, k) ==
    [generators EXCEPT ![k] = generator_next(generators[k]).frames]

----------------------------------------------------------------------------
(* SemanticDomainObject (definitions.py).  A dataclass instance is a record *)
(* of its fields; a dict is its items, (key, value) pairs in insertion      *)
(* order.                                                                   *)

PyDict(items) == [items |-> items]

\* kwargs[key]
DictGet(d, key) == MapGet(d.items, key)

\* kwargs[key] = value, for a key the dict holds
DictSet(d, key, value) ==
    PyDict([i \in DOMAIN d.items |->
              IF d.items[i][1] = key THEN <<key, value>> ELSE d.items[i]])

\* dict_.pop(field_name) for every field name in excluded_fields
DictPop(d, excluded_fields) ==
    PyDict(SelectSeq(d.items, LAMBDA item : item[1] \notin excluded_fields))

\* dataclasses.asdict: the fields in declaration order, dataclass instances
\* inside lists turned into dicts as well
Question_asdict(self) ==
    PyDict(<< <<"num", self.num>>, <<"text", self.text>>,
              <<"words", self.words>> >>)

Domain_asdict(self) ==
    PyDict(<< <<"code", self.code>>, <<"title", self.title>>,
              <<"description", self.description>>,
              <<"questions", [i \in DOMAIN self.questions |->
                                Question_asdict(self.questions[i])]>> >>)

Question_to_dict(self, excluded_fields) ==
    DictPop(Question_asdict(self), excluded_fields)

Domain_to_dict(self, excluded_fields) ==
    DictPop(Domain_asdict(self), excluded_fields)

\* cls(**kwargs) for Question
Question_from_dict(kwargs) ==
    Question(DictGet(kwargs, "num"), DictGet(kwargs, "text"),
             DictGet(kwargs, "words"))

\* mutant: Domain inherits the empty table of the base class
no_field_parsing_exceptions == {}

\* the fields named by Domain.get_field_parsing_exceptions
Domain_get_field_parsing_exceptions == {"questions"}

\* kwargs after the loop of from_dict: the transformed fields are stored
\* back into the caller's dict
Domain_parsed_kwargs(kwargs) ==
    IF "questions" \in Domain_get_field_parsing_exceptions
    THEN DictSet(kwargs, "questions",
                 [i \in DOMAIN DictGet(kwargs, "questions") |->
                    Question_from_dict(DictGet(kwargs, "questions")[i])])
    ELSE kwargs

Domain_from_dict(kwargs) ==
    LET parsed == Domain_parsed_kwargs(kwargs) IN
    Domain(DictGet(parsed, "code"), DictGet(parsed, "title"),
           DictGet(parsed, "description"), DictGet(parsed, "questions"))

\* convert_rwc_domains_to_json, lines 251-253: the list handed to
\* dump_domains_to_json
dict_domains == [i \in DOMAIN domains |-> Domain_to_dict(domains[i], {})]

\* version("semantic_domains") of the installed package
PackageVersion == <<"0", ".", "1">>

\* domain.to_dict() on every item of the list dump_domains_to_json is given:
\* an item that is a dict has no such method
dump_items(items) ==
    IF \E i \in DOMAIN items : DOMAIN items[i] = {"items"}
    THEN [err |-> AttributeError, value |-> <<>>]
    ELSE [err |-> "none",
          value |-> [i \in DOMAIN items |-> Domain_to_dict(items[i], {})]]

\* open(output_json_path, "w"): the file exists and is empty
DumpOpen ==
    /\ pc = "returned"
    /\ pc' = "dump_write"
    /\ output' = Some([written |-> None])
    /\ UNCHANGED <<document, cursor, domains, dom, questions, qloc, error>>
    /\ UNCHANGED treeVars

\* f.write(json.dumps({...})): the argument is built first; an exception
\* leaves the call with the file as open left it
DumpWrite ==
    /\ pc = "dump_write"
    /\ LET dumped == dump_items(dict_domains) IN
       IF dumped.err # "none"
       THEN /\ pc' = "raised"
            /\ error' = dumped.err
            /\ UNCHANGED output
       ELSE /\ pc' = "converted"
            /\ output' = Some([written |->
                                 Some(PyDict(<< <<"version", PackageVersion>>,
                                                <<"domains", dumped.value>> >>))])
            /\ UNCHANGED error
    /\ UNCHANGED <<document, cursor, domains, dom, questions, qloc>>
    /\ UNCHANGED treeVars

\* the domains a round trip is tried on
QuestionInputs ==
    {Question(num, <<"v">>, words) :
        num \in {1, 12}, words \in {<<>>, << <<"v">> >>, << <<"v">>, <<"n">> >>}}

RoundTripDomains ==
    {Domain(code, title, description, qs) :
        code \in {<<"1">>, <<"1", ".", "2">>}, title \in {<<"v">>, <<"n">>},
        description \in {<<>>, <<"n">>},
        qs \in UNION {[1..n -> QuestionInputs] : n \in 0..MaxQuestions}}

----------------------------------------------------------------------------
(* Calls on a hierarchy *)

Code1 == <<"1">>
Code12 == <<"1", ".", "2">>
Code121 == <<"1", ".", "2", ".", "1">>
Code21 == <<"2", ".", "1">>
Code012 == <<"0", "1", ".", "2">>
CodeBad == <<"1", ".">>

\* the domains handed to insert: two share the code "1.2", one has a code
\* that splits to the same path as "1.2", one has a code that is no number
\* list
DomainInputs ==
    {Domain(Code1, <<"v">>, <<>>, <<>>),
     Domain(Code12, <<"v">>, <<>>, <<>>),
     Domain(Code12, <<"n">>, <<>>, <<>>),
     Domain(Code121, <<"n">>, <<>>, <<>>),
     Domain(Code21, <<"v">>, <<>>, <<>>),
     Domain(Code012, <<"n">>, <<>>, <<>>),
     Domain(CodeBad, <<"v">>, <<>>, <<>>)}

StrKey(code) == [type |-> "str", str |-> code]
ListKey(path) == [type |-> "list", list |-> path]

KeyInputs ==
    {StrKey(d.code) : d \in DomainInputs}
    \cup {StrKey(<<"2">>), StrKey(<<"3">>), StrKey(<<"1", ".", "2", ".", "2">>)}
    \cup {ListKey(p) : p \in {<<>>, <<1>>, <<2>>, <<3>>, <<1, 2>>, <<2, 1>>,
                              <<1, 2, 1>>, <<1, 2, 2>>}}

Nodes == DOMAIN subdomains

\* assemble_hierarchy's loop body: root.insert(domain)
Insert ==
    /\ UNCHANGED parserVars
    /\ Len(inserted) < MaxInserts
    /\ \E domain \in DomainInputs :
          LET res == root_insert(Tree, domain) IN
          /\ subdomains' = res.tree.subdomains
          /\ content' = res.tree.content
          /\ parent' = res.tree.parent
          /\ inserted' = IF res.err = "none" THEN Append(inserted, domain) ELSE inserted
          /\ op' = [kind |-> "insert", domain |-> domain, err |-> res.err,
                    before |-> Tree]

\* root[key]
GetItem ==
    /\ UNCHANGED parserVars
    /\ \E key \in KeyInputs :
          LET res == getitem(<<>>, key) IN
          /\ op' = [kind |-> "getitem", key |-> key, err |-> res.err,
                    value |-> res.value, arg |-> res.arg, before |-> Tree]
          /\ UNCHANGED <<subdomains, content, parent, inserted>>

\* list(node.traverse(max_depth)) on any node of the hierarchy
Traverse ==
    /\ UNCHANGED parserVars
    /\ \E self \in Nodes, max_depth \in 0..MaxTraverseDepth :
          /\ op' = [kind |-> "traverse", self |-> self, max_depth |-> max_depth,
                    yielded |-> traverse(self, max_depth)]
          /\ UNCHANGED <<subdomains, content, parent, inserted>>

\* repr(node) on any node of the hierarchy
Repr ==
    /\ UNCHANGED parserVars
    /\ \E self \in Nodes :
          /\ op' = [kind |-> "repr", self |-> self, value |-> repr(self)]
          /\ UNCHANGED <<subdomains, content, parent, inserted>>

\* two calls node.traverse(max_depth) on the same node: two generators
Iterate ==
    /\ UNCHANGED parserVars
    /\ \E self \in Nodes, max_depth \in 0..MaxTraverseDepth :
          /\ op' = [kind |-> "iterate", self |-> self, max_depth |-> max_depth,
                    generators |-> <<traverse_generator(self, max_depth),
                                     traverse_generator(self, max_depth)>>,
                    yielded |-> << <<>>, <<>> >>,
                    done |-> <<FALSE, FALSE>>,
                    calls |-> <<0, 0>>]
          /\ UNCHANGED <<subdomains, content, parent, inserted>>

\* next() on one of the two generators, in any interleaving
NextValue ==
    /\ UNCHANGED parserVars
    /\ op.kind = "iterate"
    /\ \E k \in 1..2 :
          LET res == generator_next(op.generators[k]) IN
          /\ ~op.done[k]
          /\ op' = [op EXCEPT
                      !.generators = advance(@, k),
                      !.yielded[k] = IF res.value = None THEN @
                                     ELSE Append(@, res.value[1]),
                      !.done[k] = (res.value = None),
                      !.calls[k] = @ + 1]
          /\ UNCHANGED <<subdomains, content, parent, inserted>>

\* the hierarchy is built before it is iterated and not modified after
BuildInsert ==
    /\ op.kind # "iterate"
    /\ Insert

\* assemble_hierarchy, line 108: root = DomainNode()
TreeInit ==
    /\ document = <<>>
    /\ cursor = 0
    /\ pc = "start"
    /\ domains = <<>>
    /\ dom = NoDomain
    /\ questions = <<>>
    /\ qloc = NoQuestion
    /\ error = "none"
    /\ output = None
    /\ EmptyTree

TreeNext ==
    \/ Insert
    \/ GetItem
    \/ Traverse
    \/ Repr

TreeSpec == TreeInit /\ [][TreeNext]_vars

IterNext ==
    \/ BuildInsert
    \/ Iterate
    \/ NextValue

IterSpec == TreeInit /\ [][IterNext]_vars

\* the code "1.1. ... .1" of n segments
DeepCode(n) == Join([i \in 1..n |-> <<"1">>], ".")

\* the domains handed to insert in a deep hierarchy: one of every number of
\* segments, a second one with the code "1", and one beside them
DeepInputs ==
    {Domain(DeepCode(n), <<"v">>, <<>>, <<>>) : n \in 1..MaxSegments}
    \cup {Domain(Code1, <<"n">>, <<>>, <<>>), Domain(<<"2">>, <<"n">>, <<>>, <<>>)}

\* assemble_hierarchy's loop body: root.insert(domain)
DeepInsert ==
    /\ UNCHANGED parserVars
    /\ Len(inserted) < MaxDeepInserts
    /\ \E domain \in DeepInputs :
          LET res == root_insert(Tree, domain) IN
          /\ subdomains' = res.tree.subdomains
          /\ content' = res.tree.content
          /\ parent' = res.tree.parent
          /\ inserted' = IF res.err = "none" THEN Append(inserted, domain) ELSE inserted
          /\ op' = [kind |-> "insert", domain |-> domain, err |-> res.err,
                    before |-> Tree]

\* list(root): the root is iterated to its end
IterRoot ==
    /\ UNCHANGED parserVars
    /\ op.kind # "iter"
    /\ op' = [kind |-> "iter", self |-> <<>>, yielded |-> iter(<<>>)]
    /\ UNCHANGED <<subdomains, content, parent, inserted>>

DeepNext ==
    \/ DeepInsert
    \/ IterRoot

DeepSpec == TreeInit /\ [][DeepNext]_vars

\* a Domain object in hand
RoundTripInit ==
    /\ document = <<>>
    /\ cursor = 0
    /\ pc = "start"
    /\ domains = <<>>
    /\ dom = NoDomain
    /\ questions = <<>>
    /\ qloc = NoQuestion
    /\ error = "none"
    /\ output = None
    /\ subdomains = (<<>> :> <<>>)
    /\ content = (<<>> :> None)
    /\ parent = (<<>> :> None)
    /\ inserted = <<>>
    /\ \E domain \in RoundTripDomains : op = [kind |-> "domain", domain |-> domain]

\* kwargs = domain.to_dict()
ToDict ==
    /\ op.kind = "domain"
    /\ op' = [kind |-> "to_dict", domain |-> op.domain,
              kwargs |-> Domain_to_dict(op.domain, {})]
    /\ UNCHANGED <<parserVars, subdomains, content, parent, inserted>>

\* Domain.from_dict(kwargs): the value returned, and kwargs as the call
\* leaves it
FromDict ==
    /\ op.kind = "to_dict"
    /\ op' = [kind |-> "from_dict", domain |-> op.domain,
              kwargs |-> Domain_parsed_kwargs(op.kwargs),
              value |-> Domain_from_dict(op.kwargs)]
    /\ UNCHANGED <<parserVars, subdomains, content, parent, inserted>>

RoundTripNext ==
    \/ ToDict
    \/ FromDict

RoundTripSpec == RoundTripInit /\ [][RoundTripNext]_vars

\* convert_rwc_domains_to_json: the parse, then dump_domains_to_json
ConvertNext ==
    \/ ParseStart
    \/ ParseLoop
    \/ ParseDomainTitle
    \/ ParseDomainDescription
    \/ ParseDomainQuestions
    \/ ParseQuestionText
    \/ ParseSetOfWords
    \/ NextQuestion
    \/ DumpOpen
    \/ DumpWrite

ConvertSpec == Init /\ [][ConvertNext]_vars

----------------------------------------------------------------------------
(* Properties of the tokenizer, checked under TokSpec *)

Last(seq) == seq[Len(seq)]
MapSeq(Op(_), s) == [i \in DOMAIN s |-> Op(s[i])]

\* the text of the words line after its bullet
WordsBody == SubSeq(document[2].text, 2, Len(document[2].text))

\* the words step has run: it returned or it raised
WordsStepDone == pc \in {"next_question", "raised"}

\* the number of parentheses open after the first i characters of s
RECURSIVE DepthAt(_, _)
DepthAt(s, i) ==
    IF i = 0 THEN 0
    ELSE DepthAt(s, i - 1)
         + (IF s[i] = "(" THEN 1 ELSE IF s[i] = ")" THEN -1 ELSE 0)

NoStrayClose(s) == \A i \in 0..Len(s) : DepthAt(s, i) >= 0
Balanced(s) == NoStrayClose(s) /\ DepthAt(s, Len(s)) = 0
NoPlaceholder(s) == \A i \in DOMAIN s : s[i] \notin {"_", "#"}

\* the positions of the commas of s that lie outside every parenthesis
TopCommas(s) == {i \in DOMAIN s : s[i] = "," /\ DepthAt(s, i) = 0}

\* the segments of s between its top-level commas, in order, from position from
RECURSIVE SegmentsFrom(_, _)
SegmentsFrom(s, from) ==
    LET later == {i \in TopCommas(s) : i >= from} IN
    IF later = {} THEN <<SubSeq(s, from, Len(s))>>
    ELSE LET c == CHOOSE i \in later : \A j \in later : i <= j
         IN <<SubSeq(s, from, c - 1)>> \o SegmentsFrom(s, c + 1)

TrimmedSegments(s) ==
    SelectSeq(MapSeq(Strip, SegmentsFrom(s, 1)), LAMBDA w : w # <<>>)

Abbreviated(word) ==
    Replace(Replace(word, <<"(", "v", ")">>, <<"(", "v", "e", "r", "b", ")">>),
            <<"(", "n", ")">>, <<"(", "n", "o", "u", "n", ")">>)

\* C1 as stated: for a bullet-prefixed line with balanced parentheses and no
\* placeholder character, the words returned are exactly the trimmed,
\* non-empty segments between the top-level commas, unchanged.
C1_SegmentsUnchanged ==
    (WordsStepDone /\ Balanced(WordsBody) /\ NoPlaceholder(WordsBody))
        => /\ pc = "next_question"
           /\ Last(questions).words = TrimmedSegments(WordsBody)

\* C1 amended: for a bullet-prefixed line with balanced parentheses and no
\* placeholder character, tokenizing succeeds, advances the cursor by one
\* line, and returns the trimmed, non-empty segments between the top-level
\* commas, in order and with duplicates, each with "(v)" written "(verb)"
\* and "(n)" written "(noun)" and otherwise unchanged.
C1_TopLevelSplit ==
    (WordsStepDone /\ Balanced(WordsBody) /\ NoPlaceholder(WordsBody))
        => /\ pc = "next_question"
           /\ cursor = 2
           /\ Last(questions).words = MapSeq(Abbreviated, TrimmedSegments(WordsBody))

\* a line was split in two or more words and a comma inside parentheses
\* was kept in one of them
C1_Witness ==
    /\ pc = "next_question"
    /\ Balanced(WordsBody) /\ NoPlaceholder(WordsBody)
    /\ Len(Last(questions).words) >= 2
    /\ \E i \in DOMAIN Last(questions).words :
          "," \in Range(Last(questions).words[i])

\* C2: a words line with an opening parenthesis that is never closed makes
\* the tokenizer fail with FormatError (AssertionError), with the cursor
\* left on the line.
C2_UnclosedBracketFails ==
    (WordsStepDone /\ NoStrayClose(WordsBody) /\ DepthAt(WordsBody, Len(WordsBody)) > 0)
        => /\ pc = "raised"
           /\ error = AssertionError
           /\ cursor = 1

\* C21: a words line in which a closing parenthesis stands with no opening
\* parenthesis pending makes the tokenizer fail with FormatError
\* (AssertionError), the error of the other format violations, and no
\* words are returned.
C21_StrayCloseIsFormatError ==
    (WordsStepDone /\ ~NoStrayClose(WordsBody))
        => /\ pc = "raised"
           /\ error = AssertionError
           /\ questions = <<>>

\* how often the string pat occurs in s
Occurrences(s, pat) ==
    Cardinality({i \in 1..(Len(s) - Len(pat) + 1) :
                    SubSeq(s, i, i + Len(pat) - 1) = pat})

RECURSIVE OccurrencesIn(_, _)
OccurrencesIn(words, pat) ==
    IF words = <<>> THEN 0
    ELSE Occurrences(Head(words), pat) + OccurrencesIn(Tail(words), pat)

\* the word with every "(verb)" written back as "(v)" and every "(noun)" as
\* "(n)"
Unexpanded(word) ==
    Replace(Replace(word, <<"(", "v", "e", "r", "b", ")">>, <<"(", "v", ")">>),
            <<"(", "n", "o", "u", "n", ")">>, <<"(", "n", ")">>)

IsPieceOf(word, s) ==
    \E i \in 1..(Len(s) + 1), j \in 0..Len(s) : SubSeq(s, i, j) = word

\* C18: in the words returned for a line without placeholder characters,
\* every "(v)" of the source stands as "(verb)" and every "(n)" as "(noun)":
\* no word holds "(v)" or "(n)", the words hold as many "(verb)" and "(noun)"
\* as the source holds "(v)" and "(n)", and apart from these expansions each
\* word is a piece of the source, character for character.
C18_OnlyVerbAndNounExpanded ==
    (pc = "next_question" /\ NoPlaceholder(WordsBody)) =>
       LET words == Last(questions).words IN
       /\ \A i \in DOMAIN words :
             /\ Occurrences(words[i], <<"(", "v", ")">>) = 0
             /\ Occurrences(words[i], <<"(", "n", ")">>) = 0
             /\ IsPieceOf(Unexpanded(words[i]), WordsBody)
       /\ OccurrencesIn(words, <<"(", "v", "e", "r", "b", ")">>)
             = Occurrences(WordsBody, <<"(", "v", ")">>)
       /\ OccurrencesIn(words, <<"(", "n", "o", "u", "n", ")">>)
             = Occurrences(WordsBody, <<"(", "n", ")">>)

\* "(v),n" gave the words "(verb)" and "n"
C18_Witness ==
    /\ pc = "next_question"
    /\ WordsBody = <<"(", "v", ")", ",", "n">>
    /\ Last(questions).words = << <<"(", "v", "e", "r", "b", ")">>, <<"n">> >>

----------------------------------------------------------------------------
(* Properties of parse, checked under Spec *)

\* parse has ended: it returned `domains` or an exception left it
Terminal == pc \in {"returned", "raised"}

IsBlank(line) == Strip(line.text) = <<>>
NonBlankOf(doc) == SelectSeq(doc, LAMBDA line : ~IsBlank(line))
NonBlankLines == NonBlankOf(document)

\* the last non-blank line opens a block, or a question, that never ends
EndsMidBlock ==
    /\ NonBlankLines # <<>>
    /\ Last(NonBlankLines).style \in {domain_header_style_name, question_style_name}

\* C3: a document that ends after a title with no description, or after a
\* question with no words line, makes parse fail with FormatError
\* (AssertionError): no domain list is returned and the failure is not
\* the EndOfInput signal.
C3_MidBlockIsFormatError ==
    (Terminal /\ EndsMidBlock) => (pc = "raised" /\ error = AssertionError)

\* C4: the EndOfInput signal (StopIteration) never leaves parse.
C4_EndOfInputNeverEscapes ==
    pc = "raised" => error # StopIteration

\* the styles of nb from line i on follow (header, description,
\* (question, words)*)*, entered in state st
RECURSIVE StylesFollow(_, _, _)
StylesFollow(nb, i, st) ==
    IF i > Len(nb) THEN st \in {"start", "body"}
    ELSE LET style == nb[i].style IN
         CASE st = "start" ->
                  style = domain_header_style_name /\ StylesFollow(nb, i + 1, "descr")
           [] st = "descr" ->
                  style = domain_description_style_name /\ StylesFollow(nb, i + 1, "body")
           [] st = "body" ->
                  \/ style = domain_header_style_name /\ StylesFollow(nb, i + 1, "descr")
                  \/ style = question_style_name /\ StylesFollow(nb, i + 1, "words")
           [] st = "words" ->
                  style = word_style_name /\ StylesFollow(nb, i + 1, "body")

WellStyled == StylesFollow(NonBlankLines, 1, "start")

Positions(nb, style) ==
    SelectSeq([i \in 1..Len(nb) |-> i], LAMBDA i : nb[i].style = style)

\* the Question a question line and the words line after it stand for
ExpectedQuestion(qline, wline) ==
    LET parts == Split(qline.text, " ")
        num == ParseInt(SubSeq(Head(parts), 2, Len(Head(parts)) - 1))
        body == Strip(SubSeq(wline.text, 2, Len(wline.text)))
    IN Question(num.value, Strip(Join(Tail(parts), " ")),
                tokenize_words(body, char_protection_replacement).value)

\* the Domain the block of nb that starts at header line h stands for
ExpectedDomain(nb, h) ==
    LET later == {j \in (h + 1)..Len(nb) : nb[j].style = domain_header_style_name}
        end == IF later = {} THEN Len(nb)
               ELSE (CHOOSE j \in later : \A k \in later : j <= k) - 1
        qs == SelectSeq([i \in 1..Len(nb) |-> i],
                        LAMBDA i : i > h /\ i <= end /\ nb[i].style = question_style_name)
        parts == Split(nb[h].text, " ")
    IN Domain(Head(parts), Join(Tail(parts), " "), nb[h + 1].text,
              [k \in DOMAIN qs |-> ExpectedQuestion(nb[qs[k]], nb[qs[k] + 1])])

ExpectedDomains(nb) ==
    LET hs == Positions(nb, domain_header_style_name)
    IN [k \in DOMAIN hs |-> ExpectedDomain(nb, hs[k])]

\* C5: on a document whose non-blank lines follow the style sequence
\* (header, description, (question, words)*)*, parse returns one Domain per
\* header line, in order, each with its code, title, description and one
\* Question per question line of its block.
C5_WellStyledParses ==
    (Terminal /\ WellStyled)
        => (pc = "returned" /\ domains = ExpectedDomains(NonBlankLines))

\* the positions (0-based) at or after the cursor of the lines that are not
\* blank
NonBlankAhead ==
    {i \in cursor..(num_lines - 1) : ~IsBlank(document[i + 1])}

\* C20: wherever the cursor stands during a parse, get_current_line returns
\* the first line at or after the cursor that is not blank and leaves the
\* cursor on it, or fails with EndOfInput (StopIteration) when there is
\* none, also when only blank lines remain; it never reads past the end of
\* the document (IndexError), so no parse ends with that error.
C20_BlankLinesSkipped ==
    /\ pc # "start" =>
          LET got == get_current_line IN
          IF NonBlankAhead # {}
          THEN LET first == CHOOSE i \in NonBlankAhead :
                               \A j \in NonBlankAhead : i <= j
               IN /\ got.err = "none"
                  /\ got.cursor = first
                  /\ got.line = Some(document[first + 1])
          ELSE got.err = StopIteration
    /\ pc = "raised" => error # IndexError

----------------------------------------------------------------------------
(* Termination of parse, checked under FairSpec *)

\* the steps without a line to consume that a parse can still take at pc
\* before it must consume a line or end
StepsBeforeConsuming ==
    << <<"start", 3>>, <<"parse", 2>>, <<"parse_domain_title", 1>>,
       <<"parse_domain_description", 1>>, <<"parse_domain_questions", 3>>,
       <<"parse_question_text", 1>>, <<"parse_set_of_words", 1>>,
       <<"next_question", 3>>, <<"returned", 0>>, <<"raised", 0>> >>

\* a bound on the steps a parse has left: the lines from the cursor to the
\* end of the document, four steps for each, and the steps at pc
StepsLeftAt(cur, at) == 4 * (num_lines - cur) + MapGet(StepsBeforeConsuming, at)
StepsLeft == StepsLeftAt(cursor, pc)

\* C23: parse ends on every document: it returns its domains or fails.  The
\* cursor never passes the end of the document, every step lowers the
\* number of steps left, every domain and every question collected took two
\* lines of the document (every turn of the two loops advanced the cursor),
\* and so the parse reaches its end.
C23_ParseTerminates ==
    /\ [](cursor <= num_lines /\ StepsLeft >= 0)
    /\ [](2 * Len(domains) <= cursor /\ 2 * Len(questions) <= cursor)
    /\ [][document' = document /\ StepsLeftAt(cursor', pc') < StepsLeft]_vars
    /\ <>Terminal

\* a parse went once round both loops and returned a domain with a question,
\* its cursor at the end of the document
C23_Witness ==
    /\ pc = "returned"
    /\ Len(domains) = 1
    /\ Len(domains[1].questions) = 1
    /\ cursor = num_lines

----------------------------------------------------------------------------
(* Properties of the cursor of parse, checked under CursorSpec *)

ParseSteps == {"parse_domain_title", "parse_domain_description",
               "parse_question_text", "parse_set_of_words"}

\* the lines a finished part of the result took: two for every domain and
\* two for every question
RECURSIVE LinesOf(_)
LinesOf(ds) ==
    IF ds = <<>> THEN 0
    ELSE 2 + 2 * Len(Head(ds).questions) + LinesOf(Tail(ds))

\* the lines the parse steps have consumed when the parse stands at pc
Consumed ==
    LET done == LinesOf(domains) IN
    CASE pc = "start" -> 0
      [] pc \in {"parse", "parse_domain_title", "returned"} -> done
      [] pc = "parse_domain_description" -> done + 1
      [] pc = "parse_domain_questions" -> done + 2
      [] pc \in {"parse_question_text", "next_question"} -> done + 2 + 2 * Len(questions)
      [] pc = "parse_set_of_words" -> done + 3 + 2 * Len(questions)

NonBlankBefore(cur) == Cardinality({i \in 1..cur : ~IsBlank(document[i])})

----------------------------------------------------------------------------
(* Properties of the style checks of parse, checked under StyleSpec *)

\* the style the parse step at pc asks of the line it consumes
StepStyles ==
    << <<"parse_domain_title", domain_header_style_name>>,
       <<"parse_domain_description", domain_description_style_name>>,
       <<"parse_question_text", question_style_name>>,
       <<"parse_set_of_words", word_style_name>> >>

\* the parse step about to run has a current non-blank line, and the line
\* has not the style of the step or, for the words step, not the bullet
StepOnWrongLine ==
    /\ pc \in MapKeys(StepStyles)
    /\ get_current_line.err = "none"
    /\ LET line == get_current_line.line[1] IN
       \/ line.style # MapGet(StepStyles, pc)
       \/ pc = "parse_set_of_words" /\ line.text[1] # Bullet

\* the positions (0-based) of the lines no parse step can consume where
\* they stand: a non-blank line of another style, a line after a question
\* line that is not a words line with its bullet, a words line that does not
\* follow a question line
PreviousNonBlank(i) ==
    LET before == {j \in 1..(i - 1) : ~IsBlank(document[j])} IN
    IF before = {} THEN None
    ELSE Some(document[CHOOSE j \in before : \A k \in before : k <= j])

Misplaced ==
    {i \in 0..(num_lines - 1) :
        LET line == document[i + 1]
            prev == PreviousNonBlank(i + 1)
            afterQuestion == prev # None /\ prev[1].style = question_style_name
        IN /\ ~IsBlank(line)
           /\ \/ line.style \notin {domain_header_style_name,
                                    domain_description_style_name,
                                    question_style_name, word_style_name}
              \/ afterQuestion /\ (line.style # word_style_name
                                   \/ line.text[1] # Bullet)
              \/ line.style = word_style_name /\ ~afterQuestion}

\* C22: every parse step checks the line it consumes: a title, description,
\* question-text or words step whose current non-blank line has not the
\* style of the step, and a words step whose line lacks the bullet, fails
\* with FormatError (AssertionError) with the cursor on that line and
\* nothing added to the result.  Hence a document with a line of another
\* style, a question line followed by a line that is no words line, or a
\* words line that does not follow a question ends with FormatError at or
\* before the first such line; the line is never skipped.
C22_StepsCheckStyle ==
    /\ [][StepOnWrongLine =>
             /\ pc' = "raised"
             /\ error' = AssertionError
             /\ cursor' = get_current_line.cursor
             /\ domains' = domains
             /\ questions' = questions]_vars
    /\ [](Terminal /\ Misplaced # {} =>
             /\ pc = "raised"
             /\ error = AssertionError
             /\ \A i \in Misplaced : cursor <= i)

\* the parse failed on a words line without bullet that follows a question
C22_Witness ==
    /\ pc = "raised"
    /\ error = AssertionError
    /\ document = <<HeaderLine, DescriptionLine, QuestionLine, NoBulletLine>>
    /\ cursor = 3

----------------------------------------------------------------------------
(* Properties of the hierarchy, checked under TreeSpec *)

PathOf(domain) == domain_code(domain.code)
InsertedPaths == {PathOf(inserted[i]).value : i \in DOMAIN inserted}
Prefixes(path) == {SubSeq(path, 1, k) : k \in 0..Len(path)}

\* the last call was an insert of a domain whose node already had content
DuplicateInsert ==
    /\ op.kind = "insert"
    /\ PathOf(op.domain).err = "none"
    /\ PathOf(op.domain).value \in DOMAIN op.before.content
    /\ op.before.content[PathOf(op.domain).value] # None

\* C6: inserting a domain whose code splits to the path of a node that has
\* content fails with DuplicateDomainError (AssertionError) and changes
\* nothing: no node is added or removed, and every node with content still
\* holds the first domain stored in it.
C6_DuplicateInsertFails ==
    /\ DuplicateInsert => (op.err = AssertionError /\ Tree = op.before)
    /\ \A i \in DOMAIN inserted :
          /\ PathOf(inserted[i]).value \in Nodes
          /\ content[PathOf(inserted[i]).value] = Some(inserted[i])
          /\ \A j \in DOMAIN inserted :
                PathOf(inserted[j]).value = PathOf(inserted[i]).value => j = i

\* a second domain with the code "1.2" was refused
C6_Witness ==
    /\ DuplicateInsert
    /\ op.err = AssertionError
    /\ op.domain.code = Code12
    /\ content[<<1, 2>>] # Some(op.domain)
    /\ content[<<1, 2>>] # None

\* C7: a successful insert adds exactly the missing nodes of the path of
\* the code and sets content on the last node only; a node has content
\* exactly when a domain with its path was inserted, so the nodes made to
\* bridge a path stay without content.
C7_InsertCreatesPath ==
    /\ (op.kind = "insert" /\ op.err = "none") =>
          LET path == PathOf(op.domain).value
              old == DOMAIN op.before.content
          IN /\ Nodes = old \cup Prefixes(path)
             /\ DOMAIN content = Nodes
             /\ \A n \in Nodes :
                   content[n] = IF n = path THEN Some(op.domain)
                                ELSE IF n \in old THEN op.before.content[n]
                                ELSE None
    /\ \A n \in Nodes : (content[n] # None) <=> (n \in InsertedPaths)

\* "1.2.1" then "1.2" were inserted, and the node "1" that bridges them
\* has no content
C7_Witness ==
    /\ Len(inserted) = 2
    /\ inserted[1].code = Code121
    /\ inserted[2].code = Code12
    /\ op.kind = "insert" /\ op.err = "none"
    /\ <<1>> \in Nodes
    /\ content[<<1>>] = None
    /\ content[<<1, 2>>] = Some(inserted[2])
    /\ content[<<1, 2, 1>>] = Some(inserted[1])

\* the last call was a lookup by the code of the stored domain d, given as
\* a string or as the list of its integers
LookupOf(d) ==
    /\ op.kind = "getitem"
    /\ \/ op.key.type = "str" /\ op.key.str = d.code
       \/ op.key.type = "list" /\ op.key.list = PathOf(d).value

\* C8: lookup by the code of an inserted domain, as a string or as a list
\* of integers, returns that domain and changes neither the tree nor the
\* caller's key.
C8_LookupReturnsInserted ==
    \A i \in DOMAIN inserted :
       LookupOf(inserted[i]) =>
          /\ op.err = "none"
          /\ op.value = Some(inserted[i])
          /\ Tree = op.before
          /\ op.arg = (IF op.key.type = "str" THEN op.key.str ELSE op.key.list)

\* a domain three levels down was looked up by its list of integers
C8_Witness ==
    /\ op.kind = "getitem"
    /\ op.key.type = "list"
    /\ op.key.list = <<1, 2, 1>>
    /\ op.err = "none"
    /\ \E i \in DOMAIN inserted : op.value = Some(inserted[i])

\* the path a lookup key stands for
KeyPath(key) == IF key.type = "str" THEN domain_code(key.str)
                ELSE [err |-> "none", value |-> key.list]

\* C9: lookup of a code for which no domain was inserted fails with
\* KeyNotFoundError (KeyError), never with another error and never with a
\* value.
C9_MissingCodeIsKeyError ==
    (/\ op.kind = "getitem"
     /\ KeyPath(op.key).err = "none"
     /\ KeyPath(op.key).value # <<>>
     /\ KeyPath(op.key).value \notin InsertedPaths)
        => op.err = KeyError

Children(self) == {n \in Nodes : parent[n] = Some(self)}

\* C10: traverse(max_depth=0) yields the direct children of the node, each
\* once, and no other node.
C10_DepthZeroYieldsChildren ==
    (op.kind = "traverse" /\ op.max_depth = 0)
        => /\ Range(op.yielded) = Children(op.self)
           /\ Len(op.yielded) = Cardinality(Children(op.self))

\* traverse(0) ran on a node with two children and a grandchild
C10_Witness ==
    /\ op.kind = "traverse"
    /\ op.max_depth = 0
    /\ Len(op.yielded) = 2
    /\ \E n \in Nodes : Len(n) >= Len(op.self) + 2
                        /\ SubSeq(n, 1, Len(op.self)) = op.self

\* how many levels the node n lies below the node self
LevelsBelow(n, self) == Len(n) - Len(self)

\* C11 as stated: for every tree and every max_depth >= 0, no node yielded
\* by traverse(max_depth) lies more than max_depth levels below the node
\* traverse was called on.
C11_NoDeeperThanMaxDepth ==
    op.kind = "traverse"
        => \A i \in DOMAIN op.yielded :
              LevelsBelow(op.yielded[i], op.self) <= op.max_depth

\* C11 amended: for every tree and every max_depth >= 0, traverse(max_depth)
\* yields exactly the descendants that lie at most max_depth + 1 levels
\* below the node it was called on, so no yielded node lies deeper than
\* that.
C11_NoDeeperThanMaxDepthPlusOne ==
    op.kind = "traverse"
        => Range(op.yielded) =
              {n \in Nodes : /\ LevelsBelow(n, op.self) >= 1
                             /\ LevelsBelow(n, op.self) <= op.max_depth + 1
                             /\ SubSeq(n, 1, Len(op.self)) = op.self}

\* traverse(1) ran on the root of a tree three levels deep: a node two
\* levels down was yielded and the node three levels down was not
C11_Witness ==
    /\ op.kind = "traverse"
    /\ op.self = <<>>
    /\ op.max_depth = 1
    /\ <<1, 2, 1>> \in Nodes
    /\ <<1, 2>> \in Range(op.yielded)
    /\ <<1, 2, 1>> \notin Range(op.yielded)

\* the position in `inserted` of the insert that created the node n
FirstInserted(n) ==
    CHOOSE i \in DOMAIN inserted :
       /\ n \in Prefixes(PathOf(inserted[i]).value)
       /\ \A j \in 1..(i - 1) : n \notin Prefixes(PathOf(inserted[j]).value)

IsDescendant(n, a) == Len(n) > Len(a) /\ SubSeq(n, 1, Len(a)) = a

\* C12: traverse yields depth-first in pre-order: no node twice, every node
\* after its parent, the descendants of a yielded node in one block right
\* after it (so before its next sibling), and siblings in the order in which
\* they were first created by insert, whatever their numeric order.
C12_PreOrderInsertionOrder ==
    op.kind = "traverse" =>
       LET Y == op.yielded IN
       /\ \A i, j \in DOMAIN Y : Y[i] = Y[j] => i = j
       /\ \A i \in DOMAIN Y :
             \/ parent[Y[i]] = Some(op.self)
             \/ \E j \in 1..(i - 1) : parent[Y[i]] = Some(Y[j])
       /\ \A i, k \in DOMAIN Y :
             IsDescendant(Y[k], Y[i]) =>
                /\ i < k
                /\ \A j \in (i + 1)..k : IsDescendant(Y[j], Y[i])
       /\ \A i, j \in DOMAIN Y :
             (i # j /\ parent[Y[i]] = parent[Y[j]]) =>
                ((i < j) <=> (FirstInserted(Y[i]) < FirstInserted(Y[j])))

\* "2.1" was inserted before "1.2": the traversal of the root visits 2 and
\* its child before 1 and its child
C12_Witness ==
    /\ op.kind = "traverse"
    /\ op.self = <<>>
    /\ op.max_depth >= 1
    /\ op.yielded = << <<2>>, <<2, 1>>, <<1>>, <<1, 2>> >>

\* the titles of the nodes with content on the way from the root to the
\* node, the node included, from the k-th node of the way on
RECURSIVE TitlesOnPath(_, _)
TitlesOnPath(self, k) ==
    IF k > Len(self) THEN <<>>
    ELSE LET node == SubSeq(self, 1, k) IN
         (IF content[node] # None THEN <<content[node][1].title>> ELSE <<>>)
         \o TitlesOnPath(self, k + 1)

\* C19: repr of a node with content lists the title of every ancestor that
\* has content, and of the node itself, from the root down; an ancestor
\* without content is left out and does not hide the titles above it.
C19_ReprListsAllTitles ==
    (op.kind = "repr" /\ content[op.self] # None)
        => op.value = repr_format(join_path(TitlesOnPath(op.self, 0)))

----------------------------------------------------------------------------
(* Properties of __iter__, checked under DeepSpec *)

\* C25: iterating the root yields every domain stored by the inserts so far
\* exactly once and nothing else, whatever the number of segments of its
\* code.
C25_IterYieldsEveryInserted ==
    op.kind = "iter" =>
        /\ Range(op.yielded) = Range(inserted)
        /\ Len(op.yielded) = Len(inserted)

----------------------------------------------------------------------------
(* Properties of the generators of traverse, checked under IterSpec *)

IsPrefix(a, b) == Len(a) <= Len(b) /\ SubSeq(b, 1, Len(a)) = a

\* C13: two traversals of the same node with the same max_depth, consumed
\* in any interleaving while the tree is not modified, each yield the same
\* finite sequence: a next() on one yields one node of that sequence and
\* leaves the other where it was.
C13_Restartable ==
    op.kind = "iterate" =>
       LET whole == traverse(op.self, op.max_depth) IN
       /\ \A k \in 1..2 :
             /\ IsPrefix(op.yielded[k], whole)
             /\ op.done[k] => op.yielded[k] = whole
             /\ op.calls[k] = Len(op.yielded[k]) + (IF op.done[k] THEN 1 ELSE 0)
       /\ (op.done[1] /\ op.done[2]) => op.yielded[1] = op.yielded[2]

\* both generators of a traversal two levels deep are exhausted after five
\* calls each, with four nodes yielded by each
C13_Witness ==
    /\ op.kind = "iterate"
    /\ op.max_depth >= 1
    /\ op.done[1] /\ op.done[2]
    /\ op.calls = <<5, 5>>
    /\ Len(op.yielded[1]) = 4
    /\ op.yielded[2] = op.yielded[1]
    /\ \E i \in 1..4 : Len(op.yielded[1][i]) = Len(op.self) + 2

----------------------------------------------------------------------------
(* Properties of to_dict and from_dict, checked under RoundTripSpec *)

\* x is a Question object, not a dict
IsQuestion(x) == DOMAIN x = {"num", "text", "words"}

\* C14: Domain.from_dict(d.to_dict()) equals d field for field, and every
\* entry of its questions list is a Question object again, equal to the
\* question of d at that position.
C14_RoundTrip ==
    op.kind = "from_dict" =>
       /\ op.value = op.domain
       /\ op.value.code = op.domain.code
       /\ op.value.title = op.domain.title
       /\ op.value.description = op.domain.description
       /\ Len(op.value.questions) = Len(op.domain.questions)
       /\ \A i \in DOMAIN op.value.questions :
             /\ IsQuestion(op.value.questions[i])
             /\ op.value.questions[i] = op.domain.questions[i]

\* a domain with two questions, one of them with two words, went through
\* to_dict, where its questions were dicts, and from_dict
C14_Witness ==
    /\ op.kind = "from_dict"
    /\ Len(op.domain.questions) = 2
    /\ Len(op.domain.questions[1].words) = 2
    /\ op.domain.questions[1] # op.domain.questions[2]
    /\ Domain_to_dict(op.domain, {}) # op.kwargs
    /\ op.value.questions[1].words = op.domain.questions[1].words

----------------------------------------------------------------------------
(* Properties of convert_rwc_domains_to_json, checked under ConvertSpec *)

ParseFailed ==
    pc = "raised" /\ error \in {AssertionError, StopIteration, IndexError, ValueError}

ConvertEnded == pc \in {"converted", "raised"}

\* C15: when the document parses without error, convert_rwc_domains_to_json
\* ends without error and the output file holds the package version and a
\* domains list with one entry per parsed Domain, the dict of that Domain,
\* in parse order.
C15_ConvertWritesDomains ==
    (ConvertEnded /\ ~ParseFailed) =>
       /\ pc = "converted"
       /\ error = "none"
       /\ output # None
       /\ output[1].written =
             Some(PyDict(<< <<"version", PackageVersion>>,
                            <<"domains", dict_domains>> >>))

\* C16: the output file is opened only after parse has returned: while the
\* parse runs, and in every run where it fails, the file does not exist.
C16_OutputOnlyAfterParse ==
    /\ ParseFailed => output = None
    /\ output # None => (pc \in {"dump_write", "converted"}
                         \/ (pc = "raised" /\ error = AttributeError))

\* the parse failed after it had parsed one domain, and there is no file
C16_Witness ==
    /\ ParseFailed
    /\ Len(domains) >= 1
    /\ cursor >= 3
    /\ output = None

----------------------------------------------------------------------------
(* Properties of parse_question_text, checked under QuestionTextSpec *)

\* the question line of the document, its position, its first
\* space-separated token and what follows the first space
QuestionLineText == document[Len(document)].text
QuestionLineIndex == Len(document) - 1

RECURSIVE FirstSpace(_, _)
FirstSpace(s, i) ==
    IF i > Len(s) THEN Len(s) + 1
    ELSE IF s[i] = " " THEN i ELSE FirstSpace(s, i + 1)

FirstToken(s) == SubSeq(s, 1, FirstSpace(s, 1) - 1)
AfterFirstToken(s) == SubSeq(s, FirstSpace(s, 1) + 1, Len(s))

\* the token is "(" digits ")"
IsNumberToken(tok) ==
    /\ Len(tok) >= 3
    /\ tok[1] = "(" /\ tok[Len(tok)] = ")"
    /\ \A i \in 2..(Len(tok) - 1) : tok[i] \in Digits

LacksParenthesis(tok) ==
    tok = <<>> \/ tok[1] # "(" \/ tok[Len(tok)] # ")"

\* C17: on a question line whose first token is "(<integer>)",
\* parse_question_text returns that integer and the trimmed rest of the line
\* and leaves the cursor one line after the question line; when the first
\* token lacks its opening or its closing parenthesis it fails with
\* FormatError (AssertionError) and the cursor stays on the question line.
C17_QuestionText ==
    pc # "parse_question_text" =>
       LET tok == FirstToken(QuestionLineText) IN
       /\ IsNumberToken(tok) =>
             /\ pc = "parse_set_of_words"
             /\ error = "none"
             /\ qloc.num = DecimalValue(SubSeq(tok, 2, Len(tok) - 1))
             /\ qloc.text = Strip(AfterFirstToken(QuestionLineText))
             /\ cursor = QuestionLineIndex + 1
       /\ (Strip(QuestionLineText) # <<>> /\ LacksParenthesis(tok)) =>
             /\ pc = "raised"
             /\ error = AssertionError
             /\ cursor = QuestionLineIndex
             /\ qloc = NoQuestion

\* "(2) v" after a blank line gave the number 2 and the text "v", with the
\* cursor after the question line
C17_Witness ==
    /\ pc = "parse_set_of_words"
    /\ document = <<BlankLine, [style |-> question_style_name,
                                text |-> <<"(", "2", ")", " ", "v">>]>>
    /\ qloc = [num |-> 2, text |-> <<"v">>]
    /\ cursor = 2

====
